---- MODULE Spec2Model ----
(***************************************************************************)
(* A model of tts_engine_final.py (src/main.py): the answer extractor      *)
(* extract_answer, the equivalence oracle check_equivalence and the        *)
(* consensus-and-arbitration procedure run_dialectical_tts.                *)
(*                                                                         *)
(* A text is a sequence of one-character strings.  Indices named as in     *)
(* the source (start_idx, content_start, end_idx) are 0-based as in        *)
(* Python; a sequence access text[k] of the source is text[k + 1] here.    *)
(* The fixed literal parts of the prompts are single symbolic elements.    *)
(***************************************************************************)
EXTENDS Integers, Sequences, FiniteSets, TLC

VARIABLES prompt, pc, i, traces, answers, calls, final_output, returned, error,
          memo, run, history, ex, eq

\* the caller's view: the number of the current run of run_dialectical_tts
\* and what the finished ones did
callerVars == <<run, history>>

vars ==
    <<prompt, pc, i, traces, answers, calls, final_output, returned, error,
      memo, run, history, ex, eq>>

runVars ==
    <<prompt, pc, i, traces, answers, calls, final_output, returned, error,
      memo, run, history>>

(***************************************************************************)
(* Bounds of the model.                                                    *)
(***************************************************************************)
\* longest text of ExtractTexts, in pieces
MaxPieces == 5
\* longest body between the paddings of a padded text, in pieces
MaxPadBody == 2
\* longest boxed answer of a persona's trace, in pieces
MaxAnsPieces == 2
\* longest value handed to check_equivalence, in characters
MaxValLen == 2
\* longest response of the judge, in pieces
MaxJudgePieces == 2
\* the number of times the caller runs run_dialectical_tts on a problem
MaxRuns == 2

(***************************************************************************)
(* Python's string primitives.                                             *)
(***************************************************************************)
Min(a, b) == IF a < b THEN a ELSE b

Max(a, b) == IF a > b THEN a ELSE b

\* str.strip() removes whitespace characters
IsSpace(c) == c \in {" ", "\n", "\t"}

RECURSIVE StripLeft(_)
StripLeft(s) ==
    IF s = <<>> THEN s
    ELSE IF IsSpace(Head(s)) THEN StripLeft(Tail(s)) ELSE s

RECURSIVE StripRight(_)
StripRight(s) ==
    IF s = <<>> THEN s
    ELSE IF IsSpace(s[Len(s)]) THEN StripRight(SubSeq(s, 1, Len(s) - 1)) ELSE s

Strip(s) == StripRight(StripLeft(s))

LowerChar(c) ==
    CASE c = "A" -> "a" [] c = "Y" -> "y" [] c = "E" -> "e" [] c = "S" -> "s"
      [] c = "N" -> "n" [] c = "O" -> "o" [] OTHER -> c

UpperChar(c) ==
    CASE c = "a" -> "A" [] c = "y" -> "Y" [] c = "e" -> "E" [] c = "s" -> "S"
      [] c = "n" -> "N" [] c = "o" -> "O" [] OTHER -> c

Lower(s) == [k \in 1..Len(s) |-> LowerChar(s[k])]

Upper(s) == [k \in 1..Len(s) |-> UpperChar(s[k])]

\* the 0-based positions at which sub occurs in text
Occurrences(text, sub) ==
    {k \in 0..(Len(text) - Len(sub)) : SubSeq(text, k + 1, k + Len(sub)) = sub}

\* sub in text
Contains(text, sub) == Occurrences(text, sub) # {}

\* text.find(sub): the first occurrence, or -1
Find(text, sub) ==
    IF Occurrences(text, sub) = {} THEN -1
    ELSE CHOOSE k \in Occurrences(text, sub) :
             \A m \in Occurrences(text, sub) : k <= m

\* text.rfind(sub): the last occurrence, or -1
RFind(text, sub) ==
    IF Occurrences(text, sub) = {} THEN -1
    ELSE CHOOSE k \in Occurrences(text, sub) :
             \A m \in Occurrences(text, sub) : k >= m

\* a slice index as Python clamps it
SliceIndex(text, k) ==
    IF k < 0 THEN Max(Len(text) + k, 0) ELSE Min(k, Len(text))

\* text[lo:hi]
Slice(text, lo, hi) ==
    SubSeq(text, SliceIndex(text, lo) + 1, SliceIndex(text, hi))

\* text[lo:]
SliceFrom(text, lo) == SubSeq(text, SliceIndex(text, lo) + 1, Len(text))

\* text.replace(old, "") for a one-character old
RECURSIVE RemoveChar(_, _)
RemoveChar(s, c) ==
    IF s = <<>> THEN s
    ELSE IF Head(s) = c THEN RemoveChar(Tail(s), c)
         ELSE <<Head(s)>> \o RemoveChar(Tail(s), c)

(***************************************************************************)
(* extract_answer                                                          *)
(***************************************************************************)
start_marker == <<"\\", "b", "o", "x", "e", "d", "{">>

\* the length of the trailing suffix returned when there is no marker
SuffixLen == 50

\* (mutant) text.find(start_marker): the first occurrence
FirstMarker(text) == Find(text, start_marker)

\* start_idx = text.rfind(start_marker)
LastMarker(text) == RFind(text, start_marker)

\* (mutant) text.strip(): the suffix is not cut
FallbackWhole(text) == Strip(text)

\* return text[-50:].strip()
Fallback(text) == Strip(SliceFrom(text, 0 - SuffixLen))

\* (mutant) an open brace in the content is not counted
NextBalanceFlat(balance, char) == IF char = "}" THEN balance - 1 ELSE balance

\* the body of the loop: the balance after reading char
NextBalance(balance, char) ==
    IF char = "{" THEN balance + 1
    ELSE IF char = "}" THEN balance - 1 ELSE balance

\* the condition of the while loop
Scanning(balance, end_idx, text) == balance > 0 /\ end_idx < Len(text)

\* the value of end_idx when the loop is left
RECURSIVE ScanEnd(_, _, _)
ScanEnd(text, end_idx, balance) ==
    IF Scanning(balance, end_idx, text)
    THEN ScanEnd(text, end_idx + 1, NextBalance(balance, text[end_idx + 1]))
    ELSE end_idx

\* (mutant) the content is returned as it stands in the text
BoxContentRaw(text, content_start, end_idx) ==
    Slice(text, content_start, end_idx - 1)

\* return text[content_start:end_idx-1].strip()
BoxContent(text, content_start, end_idx) ==
    Strip(Slice(text, content_start, end_idx - 1))

extract_answer(text) ==
    LET start_idx == LastMarker(text)
        content_start == start_idx + Len(start_marker)
    IN  IF start_idx = -1 THEN Fallback(text)
        ELSE BoxContent(text, content_start, ScanEnd(text, content_start, 1))

(***************************************************************************)
(* The texts extract_answer is applied to: every concatenation of at most  *)
(* MaxPieces pieces, short texts padded to more than SuffixLen characters  *)
(* on either side, and the literal texts of the documented examples.       *)
(***************************************************************************)
RECURSIVE TextsUpTo(_, _)
TextsUpTo(P, n) ==
    IF n = 0 THEN {<<>>}
    ELSE LET prev == TextsUpTo(P, n - 1)
         IN  prev \cup {t \o p : t \in prev, p \in P}

Pad(c, n) == [k \in 1..n |-> c]

ExtractPieces == {start_marker, <<"{">>, <<"}">>, <<" ">>, <<"a">>}

PadChars == {"x", " "}

PadLens == {0, SuffixLen}

PaddedTexts ==
    {Pad(c1, n1) \o b \o Pad(c2, n2) :
        c1 \in PadChars, n1 \in PadLens, c2 \in PadChars, n2 \in PadLens,
        b \in TextsUpTo(ExtractPieces, MaxPadBody)}

\* "... \boxed{42}"
ExampleBoxed ==
    <<".", ".", ".", " ", "\\", "b", "o", "x", "e", "d", "{", "4", "2",
      "}">>

\* "... \boxed{f(x)=\boxed{2}} trailing"
ExampleNested ==
    <<".", ".", ".", " ", "\\", "b", "o", "x", "e", "d", "{", "f", "(",
      "x", ")", "=", "\\", "b", "o", "x", "e", "d", "{", "2", "}", "}",
      " ", "t", "r", "a", "i", "l", "i", "n", "g">>

\* "no marker here"
ExampleNoMarker ==
    <<"n", "o", " ", "m", "a", "r", "k", "e", "r", " ", "h", "e", "r", "e">>

ExampleTexts == {ExampleBoxed, ExampleNested, ExampleNoMarker}

ExtractTexts ==
    TextsUpTo(ExtractPieces, MaxPieces) \cup PaddedTexts \cup ExampleTexts

(***************************************************************************)
(* extract_answer, one step of its loop at a time.  ex.pc is the position  *)
(* in the function: "start" (line 21), "scan" (line 27), "done" (the       *)
(* function has returned ex.result), "raised" (an exception left it).      *)
(***************************************************************************)
\* no exception has left run_dialectical_tts
NoError == <<>>

\* the collaborator has not been called yet
NoMemo == <<>>

\* check_equivalence is not running
IdleEq ==
    [pc |-> "idle", val_a |-> <<>>, val_b |-> <<>>, calls |-> <<>>,
     output |-> <<>>, result |-> FALSE]

\* extract_answer is not running
IdleEx ==
    [pc |-> "idle", text |-> <<>>, start_idx |-> 0, content_start |-> 0,
     balance |-> 0, end_idx |-> 0, result |-> <<>>]

\* lines 21-23: no marker, the trailing suffix is returned
ExtractNoMarker ==
    /\ ex.pc = "start"
    /\ LastMarker(ex.text) = -1
    /\ ex' = [ex EXCEPT !.pc = "done",
                        !.start_idx = -1,
                        !.result = Fallback(ex.text)]
    /\ UNCHANGED <<runVars, eq>>

\* lines 21-26: the marker is found, the scan starts right after it
ExtractMarker ==
    /\ ex.pc = "start"
    /\ LastMarker(ex.text) # -1
    /\ ex' = [ex EXCEPT !.pc = "scan",
                        !.start_idx = LastMarker(ex.text),
                        !.content_start = LastMarker(ex.text) + Len(start_marker),
                        !.balance = 1,
                        !.end_idx = LastMarker(ex.text) + Len(start_marker)]
    /\ UNCHANGED <<runVars, eq>>

\* (mutant) the index moves on at a brace only
AdvanceOnBrace(end_idx, char) ==
    IF char \in {"{", "}"} THEN end_idx + 1 ELSE end_idx

\* line 31: end_idx += 1, whatever the character read
Advance(end_idx, char) == end_idx + 1

\* lines 27-31: one iteration of the loop; text[end_idx] raises IndexError
\* when end_idx is no index of text
ExtractScan ==
    /\ ex.pc = "scan"
    /\ Scanning(ex.balance, ex.end_idx, ex.text)
    /\ IF ex.end_idx + 1 \in DOMAIN ex.text
       THEN ex' = [ex EXCEPT !.balance = NextBalance(ex.balance, ex.text[ex.end_idx + 1]),
                             !.end_idx = Advance(ex.end_idx, ex.text[ex.end_idx + 1])]
       ELSE ex' = [ex EXCEPT !.pc = "raised"]
    /\ UNCHANGED <<runVars, eq>>

\* line 32: the loop is left, the content is returned
ExtractReturn ==
    /\ ex.pc = "scan"
    /\ ~Scanning(ex.balance, ex.end_idx, ex.text)
    /\ ex' = [ex EXCEPT !.pc = "done",
                        !.result = BoxContent(ex.text, ex.content_start, ex.end_idx)]
    /\ UNCHANGED <<runVars, eq>>

InitExtract ==
    /\ ex \in {[IdleEx EXCEPT !.pc = "start", !.text = t] : t \in ExtractTexts}
    /\ prompt = <<>>
    /\ pc = "idle"
    /\ i = 0
    /\ traces = <<>>
    /\ answers = <<>>
    /\ calls = <<>>
    /\ final_output = <<>>
    /\ returned = <<>>
    /\ error = NoError
    /\ memo = NoMemo
    /\ run = 1
    /\ history = <<>>
    /\ eq = IdleEq

NextExtract ==
    \/ ExtractNoMarker
    \/ ExtractMarker
    \/ ExtractScan
    \/ ExtractReturn

SpecExtract == InitExtract /\ [][NextExtract]_vars

(***************************************************************************)
(* The generation collaborator: generate(model, tokenizer, prompt=...,     *)
(* max_tokens=..., sampler=make_sampler(temp=...)).  A call is recorded    *)
(* with the messages its prompt was templated from, the temperature in     *)
(* tenths and the token budget; it returns a text or raises.               *)
(***************************************************************************)
MAX_TOKENS == 4096

Call(messages, temp, max_tokens) ==
    [messages |-> messages, temp |-> temp, max_tokens |-> max_tokens]

\* what a failing collaborator call raises
CollaboratorErrors == {<<"RuntimeError">>, <<"MemoryError">>}

\* the two ways a call ends
Returns(text) == <<"returns", text>>

Raises(e) == <<"raises", e>>

\* memo holds how the collaborator ended each call made so far; a call made
\* again (same messages, temperature and budget) ends the same way
Consistent(call, reply) == call \in DOMAIN memo => memo[call] = reply

Remember(call, reply) ==
    IF call \in DOMAIN memo THEN memo ELSE memo @@ (call :> reply)

(***************************************************************************)
(* check_equivalence                                                       *)
(***************************************************************************)
\* (mutant) val_a == val_b, without the cleanup
EqFastRaw(val_a, val_b) == val_a = val_b

\* lines 40-42: a == b after lower().strip()
EqFast(val_a, val_b) == Strip(Lower(val_a)) = Strip(Lower(val_b))

\* lines 45-52
check_prompt(val_a, val_b) ==
    <<"Are the following two math results equivalent? Value A: ">> \o val_a
        \o <<"Value B: ">> \o val_b \o <<"Answer only YES or NO.">>

\* line 56: make_sampler(temp=0.0)
JudgeTemp == 0

\* line 57: max_tokens=10
JudgeMaxTokens == 10

JudgeCall(val_a, val_b) ==
    Call(<<[role |-> "user", content |-> check_prompt(val_a, val_b)]>>,
         JudgeTemp, JudgeMaxTokens)

\* (mutant) "YES" in output, without upper()
SaysYesExact(output) == Contains(output, <<"Y", "E", "S">>)

\* line 59: "YES" in output.upper()
SaysYes(output) == Contains(Upper(output), <<"Y", "E", "S">>)

EqValues == TextsUpTo({<<"a">>, <<"A">>, <<" ">>}, MaxValLen)

JudgePieces ==
    {<<"Y", "E", "S">>, <<"y", "e", "s">>, <<"N", "O">>, <<"Y", "e">>, <<"S">>,
     <<".">>}

JudgeOutputs == TextsUpTo(JudgePieces, MaxJudgePieces)

\* lines 40-42: the normalized values are equal, True without a call
EquivFast ==
    /\ eq.pc = "start"
    /\ EqFast(eq.val_a, eq.val_b)
    /\ eq' = [eq EXCEPT !.pc = "done", !.result = TRUE]
    /\ UNCHANGED <<runVars, ex>>

\* lines 44-61: one call to the judge, True when its output holds YES
EquivJudge ==
    /\ eq.pc = "start"
    /\ ~EqFast(eq.val_a, eq.val_b)
    /\ \E output \in JudgeOutputs :
          eq' = [eq EXCEPT !.pc = "done",
                           !.calls = Append(@, JudgeCall(eq.val_a, eq.val_b)),
                           !.output = output,
                           !.result = SaysYes(output)]
    /\ UNCHANGED <<runVars, ex>>

\* line 57: the call to the judge raises
EquivJudgeFails ==
    /\ eq.pc = "start"
    /\ ~EqFast(eq.val_a, eq.val_b)
    /\ eq' = [eq EXCEPT !.pc = "raised",
                        !.calls = Append(@, JudgeCall(eq.val_a, eq.val_b))]
    /\ UNCHANGED <<runVars, ex>>

InitEquiv ==
    /\ eq \in {[IdleEq EXCEPT !.pc = "start", !.val_a = a, !.val_b = b] :
                  a \in EqValues, b \in EqValues}
    /\ prompt = <<>>
    /\ pc = "idle"
    /\ i = 0
    /\ traces = <<>>
    /\ answers = <<>>
    /\ calls = <<>>
    /\ final_output = <<>>
    /\ returned = <<>>
    /\ error = NoError
    /\ memo = NoMemo
    /\ run = 1
    /\ history = <<>>
    /\ ex = IdleEx

NextEquiv ==
    \/ EquivFast
    \/ EquivJudge
    \/ EquivJudgeFails

SpecEquiv == InitEquiv /\ [][NextEquiv]_vars

(***************************************************************************)
(* run_dialectical_tts                                                     *)
(***************************************************************************)
\* lines 125-132
system_instruction == <<"[THE AXIOM] ... [PROTOCOL] ...">>

\* (mutant) the Contrarian is asked before the Logician
personas_swapped(p) ==
    <<[role |-> "user", content |-> p],
      [role |-> "user", content |-> p \o <<"[PROTOCOL: RED TEAM] ...">>],
      [role |-> "user", content |-> p \o <<"[PROTOCOL: CAUSAL CHECK] ...">>]>>

\* lines 141-153: the three personas' messages for a problem statement
personas(p) ==
    <<[role |-> "user", content |-> p],
      [role |-> "user", content |-> p \o <<"[PROTOCOL: CAUSAL CHECK] ...">>],
      [role |-> "user", content |-> p \o <<"[PROTOCOL: RED TEAM] ...">>]>>

\* line 155
trace_names == <<"Trace 1 (Believer)", "Trace 2 (Logician)", "Trace 3 (Contrarian)">>

\* line 156, in tenths
temps == <<6, 7, 9>>

\* line 158: range(3)
NumPersonas == 3

\* lines 160-165: the call of iteration k (0-based)
PersonaCall(p, k) ==
    Call(<<[role |-> "system", content |-> system_instruction], personas(p)[k + 1]>>,
         temps[k + 1], MAX_TOKENS)

\* (mutant) a.lower().strip(), the cleanup of check_equivalence
SqueezeFolded(a) == Strip(Lower(a))

\* line 174: a.replace(" ", "")
Squeeze(a) == RemoveChar(a, " ")

\* line 174
unique_answers(ans) == {Squeeze(ans[k]) : k \in 1..Len(ans)}

\* (mutant) a majority is enough: at most two variants
ConsensusMajority(ans) == Cardinality(unique_answers(ans)) <= 2

\* (mutant) only the first two answers are compared
ConsensusFirstTwo(ans) == Squeeze(ans[1]) = Squeeze(ans[2])

\* (mutant) the answers are compared by check_equivalence's fast path
ConsensusJudged(ans) ==
    \A j, k \in 1..Len(ans) : EqFast(ans[j], ans[k])

\* line 175
Consensus(ans) == Cardinality(unique_answers(ans)) = 1

\* (mutant) the normalized answer is returned
ConsensusAnswerSqueezed(ans) == Squeeze(ans[1])

\* line 178: return answers[0]
ConsensusAnswer(ans) == ans[1]

\* (mutant) only the last trace is embedded
arbiter_prompt_last(tr) ==
    <<"[THE LOGIC OF NECESSITY] ... [THE TRIAL] ... YOUR TASK: ...">>
        \o <<"Trace 3 (Contrarian): ">> \o tr[3]
        \o <<"VERDICT: Derive the Single Necessary Truth. Put the answer in \\boxed{}.">>

\* lines 184-206
arbiter_prompt(tr) ==
    <<"[THE LOGIC OF NECESSITY] ... [THE TRIAL] ... YOUR TASK: ...">>
        \o <<"Trace 1 (Believer): ">> \o tr[1]
        \o <<"Trace 2 (Logician): ">> \o tr[2]
        \o <<"Trace 3 (Contrarian): ">> \o tr[3]
        \o <<"VERDICT: Derive the Single Necessary Truth. Put the answer in \\boxed{}.">>

\* line 210: make_sampler(temp=0.1), in tenths
ArbiterTemp == 1

\* lines 208-212
ArbiterCall(tr) ==
    Call(<<[role |-> "user", content |-> arbiter_prompt(tr)]>>, ArbiterTemp, MAX_TOKENS)

\* (mutant) the Arbiter's whole output is returned
ArbiterAnswerRaw(output) == output

\* line 213: final_ans = extract_answer(final_output)
ArbiterAnswer(output) == extract_answer(output)

\* the value returned and the return statement it left by: line 178
\* ("consensus") or line 218 ("arbiter")
Verdict(answer, provenance) == [answer |-> answer, provenance |-> provenance]

(***************************************************************************)
(* The texts the collaborator answers with.                                *)
(***************************************************************************)
Boxed(b) == start_marker \o b \o <<"}">>

AnswerPieces == {<<"a">>, <<"A">>, <<" ", "a">>}

Frac13 == <<"1", "/", "3">>

Frac23 == <<"2", "/", "3">>

Frac12 == <<"1", "/", "2">>

TraceTexts ==
    {Boxed(b) : b \in TextsUpTo(AnswerPieces, MaxAnsPieces)}
        \cup {Boxed(Frac13), Boxed(Frac23), Boxed(Frac12)}
        \cup {<<"a">>, start_marker \o <<"a", "a">>, Boxed(<<"a", "\t", "a">>)}

ArbiterTexts ==
    {Boxed(Frac23), Boxed(<<"a">>), Boxed(<<"b">>), <<"A">>,
     start_marker \o <<"a", "b">>}

Problems == {<<"problem">>}

\* (mutant) the loop is left one iteration early
AfterIterationEarly(k) == IF k + 1 < NumPersonas - 1 THEN "generating" ELSE "checking"

\* line 158: after iteration k the loop goes on or is left
AfterIteration(k) == IF k + 1 < NumPersonas THEN "generating" ELSE "checking"

\* (mutant) the exception is wrapped in one that names the persona
RaisedNaming(e, k) ==
    IF k < NumPersonas THEN <<"GenerationError", trace_names[k + 1]>> \o e ELSE e

\* lines 165, 212: no try/except, the collaborator's exception leaves
\* run_dialectical_tts as it is (k is the iteration, NumPersonas the Arbiter)
Raised(e, k) == e

\* (mutant) the exception is caught and the call is made again
AfterRaiseRetry(at) == at

\* lines 165, 212: the exception ends the run
AfterRaise(at) == "aborted"

\* lines 158-170: one iteration of the loop: the call, the extraction, the
\* two appends; after the third the loop is left
PersonaGenerate ==
    /\ pc = "generating"
    /\ i < NumPersonas
    /\ \E output \in TraceTexts :
          /\ Consistent(PersonaCall(prompt, i), Returns(output))
          /\ memo' = Remember(PersonaCall(prompt, i), Returns(output))
          /\ calls' = Append(calls, PersonaCall(prompt, i))
          /\ traces' = Append(traces, output)
          /\ answers' = Append(answers, extract_answer(output))
    /\ i' = i + 1
    /\ pc' = AfterIteration(i)
    /\ UNCHANGED <<prompt, final_output, returned, error, callerVars, ex, eq>>

\* line 165: the call raises, the exception leaves run_dialectical_tts
PersonaGenerateFails ==
    /\ pc = "generating"
    /\ i < NumPersonas
    /\ \E e \in CollaboratorErrors :
          /\ Consistent(PersonaCall(prompt, i), Raises(e))
          /\ memo' = Remember(PersonaCall(prompt, i), Raises(e))
          /\ error' = Raised(e, i)
    /\ calls' = Append(calls, PersonaCall(prompt, i))
    /\ pc' = AfterRaise(pc)
    /\ UNCHANGED <<prompt, i, traces, answers, final_output, returned, callerVars,
                   ex, eq>>

\* lines 174-178: all three agree, answers[0] is returned
ConsensusReturn ==
    /\ pc = "checking"
    /\ Consensus(answers)
    /\ returned' = Append(returned, Verdict(ConsensusAnswer(answers), "consensus"))
    /\ pc' = "done"
    /\ UNCHANGED <<prompt, i, traces, answers, calls, final_output, error, memo,
                   callerVars, ex, eq>>

\* lines 174-206: they do not, the Arbiter's prompt is built
Contradiction ==
    /\ pc = "checking"
    /\ ~Consensus(answers)
    /\ pc' = "arbitrating"
    /\ UNCHANGED <<prompt, i, traces, answers, calls, final_output, returned, error,
                   memo, callerVars, ex, eq>>

\* lines 208-218: the Arbiter's call, its answer is returned
Arbitrate ==
    /\ pc = "arbitrating"
    /\ calls' = Append(calls, ArbiterCall(traces))
    /\ final_output' \in ArbiterTexts
    /\ Consistent(ArbiterCall(traces), Returns(final_output'))
    /\ memo' = Remember(ArbiterCall(traces), Returns(final_output'))
    /\ returned' = Append(returned, Verdict(ArbiterAnswer(final_output'), "arbiter"))
    /\ pc' = "done"
    /\ UNCHANGED <<prompt, i, traces, answers, error, callerVars, ex, eq>>

\* line 212: the call raises
ArbitrateFails ==
    /\ pc = "arbitrating"
    /\ calls' = Append(calls, ArbiterCall(traces))
    /\ \E e \in CollaboratorErrors :
          /\ Consistent(ArbiterCall(traces), Raises(e))
          /\ memo' = Remember(ArbiterCall(traces), Raises(e))
          /\ error' = Raised(e, NumPersonas)
    /\ pc' = AfterRaise(pc)
    /\ UNCHANGED <<prompt, i, traces, answers, final_output, returned, callerVars,
                   ex, eq>>

Init ==
    /\ prompt \in Problems
    /\ pc = "generating"
    /\ i = 0
    /\ traces = <<>>
    /\ answers = <<>>
    /\ calls = <<>>
    /\ final_output = <<>>
    /\ returned = <<>>
    /\ error = NoError
    /\ memo = NoMemo
    /\ run = 1
    /\ history = <<>>
    /\ ex = IdleEx
    /\ eq = IdleEq

Next ==
    \/ PersonaGenerate
    \/ PersonaGenerateFails
    \/ ConsensusReturn
    \/ Contradiction
    \/ Arbitrate
    \/ ArbitrateFails

Spec == Init /\ [][Next]_vars

(***************************************************************************)
(* run_dialectical_tts called again on the same problem statement, with a  *)
(* collaborator whose replies are a function of the call: memo is that     *)
(* function, fixed from the start for the personas' calls and at the       *)
(* first call for the Arbiter's.                                           *)
(***************************************************************************)

\* (mutant) the list of the previous run is used again
KeptList(old) == old

\* lines 136-137: traces = [], answers = [] are made anew by each run
FreshList(old) == <<>>

\* the replies of the collaborator to a persona's call
RunTexts == {Boxed(<<"a">>), Boxed(<<"A">>), Boxed(<<" ", "a">>), <<"a">>}

RunReplies ==
    {Returns(t) : t \in RunTexts} \cup {Raises(e) : e \in CollaboratorErrors}

\* what a finished run has shown to its caller, and the calls it made
Outcome == [pc |-> pc, calls |-> calls, returned |-> returned, error |-> error]

\* the run has ended, the caller calls run_dialectical_tts again with the
\* same prompt: lines 119-156 build the locals again
StartRun ==
    /\ pc \in {"done", "aborted"}
    /\ run < MaxRuns
    /\ history' = Append(history, Outcome)
    /\ run' = run + 1
    /\ pc' = "generating"
    /\ i' = 0
    /\ traces' = FreshList(traces)
    /\ answers' = FreshList(answers)
    /\ calls' = <<>>
    /\ final_output' = <<>>
    /\ returned' = <<>>
    /\ error' = NoError
    /\ UNCHANGED <<prompt, memo, ex, eq>>

InitRuns ==
    /\ prompt \in Problems
    /\ pc = "generating"
    /\ i = 0
    /\ traces = <<>>
    /\ answers = <<>>
    /\ calls = <<>>
    /\ final_output = <<>>
    /\ returned = <<>>
    /\ error = NoError
    /\ \E r1, r2, r3 \in RunReplies :
          memo = (PersonaCall(prompt, 0) :> r1) @@ (PersonaCall(prompt, 1) :> r2)
                    @@ (PersonaCall(prompt, 2) :> r3)
    /\ run = 1
    /\ history = <<>>
    /\ ex = IdleEx
    /\ eq = IdleEq

NextRuns ==
    \/ PersonaGenerate
    \/ PersonaGenerateFails
    \/ ConsensusReturn
    \/ Contradiction
    \/ Arbitrate
    \/ ArbitrateFails
    \/ StartRun

SpecRuns == InitRuns /\ [][NextRuns]_vars

(***************************************************************************)
(* run_dialectical_tts with the loop of extract_answer taken step by step: *)
(* after each call the run is inside extract_answer (ex) until it returns. *)
(* The run is a single thread that goes on as long as it has a step to     *)
(* take, and every call to the collaborator returns or raises: weak        *)
(* fairness of the next-step relation.                                     *)
(***************************************************************************)

\* line 165: the call of iteration i returns; line 166: extract_answer is
\* entered with the output
LiveGenerate ==
    /\ pc = "generating"
    /\ i < NumPersonas
    /\ \E output \in TraceTexts :
          /\ Consistent(PersonaCall(prompt, i), Returns(output))
          /\ memo' = Remember(PersonaCall(prompt, i), Returns(output))
          /\ calls' = Append(calls, PersonaCall(prompt, i))
          /\ ex' = [IdleEx EXCEPT !.pc = "start", !.text = output]
    /\ pc' = "extracting"
    /\ UNCHANGED <<prompt, i, traces, answers, final_output, returned, error,
                   callerVars, eq>>

\* lines 166-170: extract_answer has returned, the two appends, the next
\* iteration or the end of the loop
LiveCollect ==
    /\ pc = "extracting"
    /\ ex.pc = "done"
    /\ traces' = Append(traces, ex.text)
    /\ answers' = Append(answers, ex.result)
    /\ i' = i + 1
    /\ pc' = AfterIteration(i)
    /\ UNCHANGED <<prompt, calls, final_output, returned, error, memo, callerVars,
                   ex, eq>>

\* line 212: the Arbiter's call returns; line 213: extract_answer is entered
LiveArbitrate ==
    /\ pc = "arbitrating"
    /\ calls' = Append(calls, ArbiterCall(traces))
    /\ final_output' \in ArbiterTexts
    /\ Consistent(ArbiterCall(traces), Returns(final_output'))
    /\ memo' = Remember(ArbiterCall(traces), Returns(final_output'))
    /\ ex' = [IdleEx EXCEPT !.pc = "start", !.text = final_output']
    /\ pc' = "extracting_final"
    /\ UNCHANGED <<prompt, i, traces, answers, returned, error, callerVars, eq>>

\* lines 213-218: extract_answer has returned, final_ans is returned
LiveReturn ==
    /\ pc = "extracting_final"
    /\ ex.pc = "done"
    /\ returned' = Append(returned, Verdict(ex.result, "arbiter"))
    /\ pc' = "done"
    /\ UNCHANGED <<prompt, i, traces, answers, calls, final_output, error, memo,
                   callerVars, ex, eq>>

NextLive ==
    \/ LiveGenerate
    \/ PersonaGenerateFails
    \/ ExtractNoMarker
    \/ ExtractMarker
    \/ ExtractScan
    \/ ExtractReturn
    \/ LiveCollect
    \/ ConsensusReturn
    \/ Contradiction
    \/ LiveArbitrate
    \/ ArbitrateFails
    \/ LiveReturn

SpecLive == InitRuns /\ [][NextLive]_vars /\ WF_vars(NextLive)

(***************************************************************************)
(* Properties of run_dialectical_tts.                                      *)
(***************************************************************************)
\* an answer with every space character deleted
NoSpaces(a) == SelectSeq(a, LAMBDA c : c # " ")

\* an answer case-folded and stripped of surrounding whitespace
Folded(a) == Strip(Lower(a))

\* the three answers are equal after the normalization of the consensus check
AllAgree ==
    /\ Len(answers) = NumPersonas
    /\ \A j, k \in 1..NumPersonas : NoSpaces(answers[j]) = NoSpaces(answers[k])

\* exactly two of the three normalized answers agree
TwoAgree ==
    /\ Len(answers) = NumPersonas
    /\ \E j, k, l \in 1..NumPersonas :
          /\ j # k /\ j # l /\ k # l
          /\ NoSpaces(answers[j]) = NoSpaces(answers[k])
          /\ NoSpaces(answers[l]) # NoSpaces(answers[j])

\* the calls made with the Arbiter's prompt (a single user message that
\* starts with the Arbiter's heading)
IsArbiterCall(c) ==
    /\ Len(c.messages) = 1
    /\ c.messages[1].content[1]
          = "[THE LOGIC OF NECESSITY] ... [THE TRIAL] ... YOUR TASK: ..."

ArbiterCalls == {k \in 1..Len(calls) : IsArbiterCall(calls[k])}

PersonaCalls == {k \in 1..Len(calls) : ~IsArbiterCall(calls[k])}

\* the positions of an element in a sequence
Positions(content, label) == {k \in 1..Len(content) : content[k] = label}

\* content holds, each right after its label and in full, the three traces
EmbedsAll(content, tr) ==
    /\ Cardinality(Positions(content, "Trace 1 (Believer): ")) = 1
    /\ Cardinality(Positions(content, "Trace 2 (Logician): ")) = 1
    /\ Cardinality(Positions(content, "Trace 3 (Contrarian): ")) = 1
    /\ LET k1 == CHOOSE k \in Positions(content, "Trace 1 (Believer): ") : TRUE
           k2 == CHOOSE k \in Positions(content, "Trace 2 (Logician): ") : TRUE
           k3 == CHOOSE k \in Positions(content, "Trace 3 (Contrarian): ") : TRUE
       IN  /\ SubSeq(content, k1 + 1, k2 - 1) = tr[1]
           /\ SubSeq(content, k2 + 1, k3 - 1) = tr[2]
           /\ SubSeq(content, k3 + 1, Len(content) - 1) = tr[3]

\* C1: a run that does not abort returns exactly one Verdict (none before it
\* is done), and the Arbiter's call is made in it if and only if the three
\* normalized answers are not all equal; no run calls the Arbiter twice.
C1_OneVerdictArbiterIffContested ==
    /\ Len(returned) = (IF pc = "done" THEN 1 ELSE 0)
    /\ Cardinality(ArbiterCalls) <= 1
    /\ ArbiterCalls # {} => Len(answers) = NumPersonas /\ ~AllAgree
    /\ pc = "done" => (ArbiterCalls # {} <=> ~AllAgree)

C1_Witness ==
    /\ pc = "done"
    /\ Cardinality(ArbiterCalls) = 1
    /\ returned[1].provenance = "arbiter"

\* C2: when exactly two of the three normalized answers agree, the run is
\* contested: it does not return by consensus, the Arbiter is called exactly
\* once, and the Arbiter's prompt holds the full text of all three traces.
C2_TwoOfThreeIsContested ==
    (pc \in {"done", "aborted"} /\ TwoAgree) =>
        /\ Cardinality(ArbiterCalls) = 1
        /\ \A k \in ArbiterCalls :
              EmbedsAll(calls[k].messages[1].content, traces)
        /\ pc = "done" => returned[1].provenance = "arbiter"

C2_Witness ==
    /\ pc = "done"
    /\ TwoAgree
    /\ traces[1] = traces[2]
    /\ traces[3] # traces[1]
    /\ Cardinality(ArbiterCalls) = 1

\* C3: when the three normalized answers are equal, the Arbiter is not
\* called and the run returns, by consensus, the answer extracted from the
\* first trace as it is (not normalized); three traces \boxed{1/3} give 1/3.
C3_UnanimousReturnsFirstAnswer ==
    /\ (pc = "done" /\ AllAgree) =>
          /\ ArbiterCalls = {}
          /\ returned = <<[answer |-> extract_answer(traces[1]),
                           provenance |-> "consensus"]>>
    /\ (pc = "done" /\ traces = <<Boxed(Frac13), Boxed(Frac13), Boxed(Frac13)>>) =>
          returned = <<[answer |-> Frac13, provenance |-> "consensus"]>>

C3_Witness ==
    /\ pc = "done"
    /\ AllAgree
    /\ returned[1].provenance = "consensus"
    /\ answers[1] # NoSpaces(answers[1])
    /\ answers[2] # answers[1]

\* what C4 says of a state: a contested run returns extract(Arbiter's output)
C4_ArbiterAnswer ==
    /\ (pc = "done" /\ ~AllAgree) =>
          returned = <<[answer |-> extract_answer(final_output),
                        provenance |-> "arbiter"]>>
    /\ (/\ pc = "done"
        /\ traces = <<Boxed(Frac13), Boxed(Frac23), Boxed(Frac12)>>
        /\ final_output = Boxed(Frac23)) =>
          returned = <<[answer |-> Frac23, provenance |-> "arbiter"]>>

\* C4: a contested run returns exactly extract(Arbiter's output), by the
\* Arbiter, whatever the three answers were; and once the Arbiter has been
\* called no call is made any more and no trace or answer changes.
C4_ArbiterIsFinal ==
    /\ []C4_ArbiterAnswer
    /\ [][ArbiterCalls # {} =>
             /\ calls' = calls
             /\ traces' = traces
             /\ answers' = answers]_vars

C4_Witness ==
    /\ pc = "done"
    /\ returned[1].provenance = "arbiter"
    /\ \A k \in 1..NumPersonas : returned[1].answer # answers[k]
    /\ returned[1].answer # final_output

\* C5 as stated: the run returns by consensus exactly when the three
\* answers are equal after case-folding and stripping surrounding whitespace.
C5_ConsensusIffFoldedEqual ==
    pc = "done" =>
        (returned[1].provenance = "consensus"
            <=> \A j, k \in 1..NumPersonas : Folded(answers[j]) = Folded(answers[k]))

\* C5, amended: the run returns by consensus exactly when the three answers
\* are equal after deleting every space character; case is not folded.
C5_ConsensusIffNoSpacesEqual ==
    pc = "done" =>
        (returned[1].provenance = "consensus"
            <=> \A j, k \in 1..NumPersonas : NoSpaces(answers[j]) = NoSpaces(answers[k]))

\* answers that differ in letter case only went to the Arbiter, and answers
\* that differ in inner spaces only were a consensus
C5_Witness ==
    /\ pc = "done"
    /\ \/ /\ returned[1].provenance = "arbiter"
          /\ \A j, k \in 1..NumPersonas : Folded(answers[j]) = Folded(answers[k])
       \/ /\ returned[1].provenance = "consensus"
          /\ \E j, k \in 1..NumPersonas : Folded(answers[j]) # Folded(answers[k])

(***************************************************************************)
(* Properties of extract_answer.                                           *)
(***************************************************************************)
\* the balance counter, seeded at 1 at position cs, after the character at
\* the 0-based position k: 1 + the open braces - the close braces in cs..k
Depth(text, cs, k) ==
    1 + Cardinality({m \in cs..k : text[m + 1] = "{"})
      - Cardinality({m \in cs..k : text[m + 1] = "}"})

\* the counter seeded at cs first reaches 0 at the close brace at e
ClosesAt(text, cs, e) ==
    /\ e \in cs..(Len(text) - 1)
    /\ Depth(text, cs, e) = 0
    /\ \A k \in cs..(e - 1) : Depth(text, cs, k) > 0

\* the counter seeded at cs never reaches 0
NeverCloses(text, cs) == \A k \in cs..(Len(text) - 1) : Depth(text, cs, k) > 0

\* text[lo:hi] for 0 <= lo, hi <= Len(text)
Between(text, lo, hi) == SubSeq(text, lo + 1, hi)

\* r is s without its leading and trailing whitespace
IsStripped(r, s) ==
    LET inner == {k \in 1..Len(s) : ~IsSpace(s[k])}
    IN  IF inner = {} THEN r = <<>>
        ELSE LET lo == CHOOSE k \in inner : \A m \in inner : k <= m
                 hi == CHOOSE k \in inner : \A m \in inner : k >= m
             IN  r = [k \in 1..(hi - lo + 1) |-> s[lo + k - 1]]

Markers(text) == Occurrences(text, start_marker)

ContentStart(p) == p + Len(start_marker)

\* the position of the close brace of the box at the marker p, -1 if the
\* box is never closed
CloseOf(text, p) ==
    LET es == {e \in ContentStart(p)..(Len(text) - 1) :
                  ClosesAt(text, ContentStart(p), e)}
    IN  IF es = {} THEN -1 ELSE CHOOSE e \in es : TRUE

\* the content of the box at the marker p, closed at e
Content(text, p) == Between(text, ContentStart(p), CloseOf(text, p))

\* the pairs <<p1, p2>> of a box and a further box in its content, both
\* closed
NestedBoxes(text) ==
    {n \in Markers(text) \X Markers(text) :
        /\ n[1] < n[2]
        /\ CloseOf(text, n[2]) # -1
        /\ CloseOf(text, n[2]) < CloseOf(text, n[1])}

IsLastMarker(text, p) == \A q \in Markers(text) : q <= p

\* C6 as stated: of a box whose content holds a further balanced box the
\* whole content of the outer box is returned; the example gives
\* f(x)=\boxed{2}.
C6_NestedReturnsOuter ==
    ex.pc = "done" =>
        /\ \A n \in NestedBoxes(ex.text) :
              IsStripped(ex.result, Content(ex.text, n[1]))
        /\ ex.text = ExampleNested =>
              ex.result = Between(ExampleNested, ContentStart(4), 25)

\* C6, amended: of a box whose content holds a further balanced box, the
\* content of the last box of the text is returned, the innermost one when
\* no marker follows it; the example gives 2.
C6_NestedReturnsLast ==
    ex.pc = "done" =>
        /\ \A n \in NestedBoxes(ex.text) :
              IsLastMarker(ex.text, n[2]) =>
                  IsStripped(ex.result, Content(ex.text, n[2]))
        /\ ex.text = ExampleNested => ex.result = <<"2">>

C6_Witness ==
    /\ ex.pc = "done"
    /\ \E n \in NestedBoxes(ex.text) :
          /\ IsLastMarker(ex.text, n[2])
          /\ ex.result # <<>>
          /\ ex.result = Content(ex.text, n[2])
          /\ ex.result # Content(ex.text, n[1])

\* the last SuffixLen characters of a text
TrailingSuffix(text) ==
    SubSeq(text, Max(1, Len(text) - SuffixLen + 1), Len(text))

\* C7 as stated: without a marker the stripped trailing suffix of 50
\* characters is returned, and it is not empty when the text is not.
C7_FallbackNeverEmpty ==
    (ex.pc = "done" /\ Markers(ex.text) = {}) =>
        /\ IsStripped(ex.result, TrailingSuffix(ex.text))
        /\ ex.text # <<>> => ex.result # <<>>

\* C7, amended: without a marker the stripped trailing suffix of 50
\* characters is returned, and it is not empty exactly when one of the last
\* 50 characters of the text is not whitespace.
C7_FallbackSuffix ==
    (ex.pc = "done" /\ Markers(ex.text) = {}) =>
        /\ IsStripped(ex.result, TrailingSuffix(ex.text))
        /\ ex.result # <<>> <=>
              \E k \in 1..Len(ex.text) :
                  /\ k > Len(ex.text) - SuffixLen
                  /\ ~IsSpace(ex.text[k])

\* a text longer than the suffix, cut and stripped to a shorter answer
C7_Witness ==
    /\ ex.pc = "done"
    /\ Markers(ex.text) = {}
    /\ Len(ex.text) > SuffixLen
    /\ ~IsSpace(ex.text[1])
    /\ ex.result # <<>>
    /\ Len(ex.result) < SuffixLen

\* C8: when the box at the last marker is never closed, no exception is
\* raised and everything after the last marker, stripped, is returned.
C8_UnclosedReturnsRest ==
    /\ ex.pc # "raised"
    /\ \A p \in Markers(ex.text) :
          (/\ ex.pc = "done"
           /\ \A q \in Markers(ex.text) : q <= p
           /\ NeverCloses(ex.text, ContentStart(p))) =>
              IsStripped(ex.result, Between(ex.text, ContentStart(p), Len(ex.text)))

(***************************************************************************)
(* Properties of check_equivalence.                                        *)
(***************************************************************************)
\* YES occurs in a text, in any letter case
HoldsYes(output) ==
    \E k \in 1..(Len(output) - 2) :
        /\ output[k] \in {"Y", "y"}
        /\ output[k + 1] \in {"E", "e"}
        /\ output[k + 2] \in {"S", "s"}

\* C9: when a and b are equal after lowercase and strip, and so for b = a,
\* check_equivalence returns True and has made no call to the judge.
C9_FastPathNoCall ==
    (eq.pc # "start" /\ Folded(eq.val_a) = Folded(eq.val_b)) =>
        /\ eq.pc = "done"
        /\ eq.result = TRUE
        /\ eq.calls = <<>>

C9_Witness ==
    /\ eq.pc = "done"
    /\ eq.val_a # eq.val_b
    /\ Folded(eq.val_a) = Folded(eq.val_b)
    /\ eq.result = TRUE

\* C10: when the normalized values differ, exactly one call is made to the
\* judge, and True is returned exactly when its response holds YES in any
\* letter case; NO, the empty response and any text without YES give False.
C10_JudgeDecides ==
    (eq.pc # "start" /\ Folded(eq.val_a) # Folded(eq.val_b)) =>
        /\ Len(eq.calls) = 1
        /\ eq.pc = "done" => (eq.result <=> HoldsYes(eq.output))
        /\ (eq.pc = "done" /\ eq.output \in {<<"N", "O">>, <<>>}) => eq.result = FALSE

C10_Witness ==
    /\ eq.pc = "done"
    /\ Folded(eq.val_a) # Folded(eq.val_b)
    /\ eq.result = TRUE
    /\ ~Contains(eq.output, <<"Y", "E", "S">>)

(***************************************************************************)
(* Properties of the failure path of run_dialectical_tts.                  *)
(***************************************************************************)

\* the last call of the log is the one that raised, and it was made once
LastCallRaisedOnce ==
    /\ calls # <<>>
    /\ calls[Len(calls)] \in DOMAIN memo
    /\ memo[calls[Len(calls)]][1] = "raises"
    /\ \A k \in 1..(Len(calls) - 1) :
          /\ calls[k] # calls[Len(calls)]
          /\ memo[calls[k]][1] = "returns"

\* C11 (state part): an exception has left the run exactly when the run is
\* aborted; an aborted run has returned no Verdict, its last call is the one
\* that failed, that call was made once and every call before it returned.
C11_AbortedState ==
    /\ error # NoError <=> pc = "aborted"
    /\ pc = "aborted" =>
          /\ returned = <<>>
          /\ LastCallRaisedOnce
          /\ Len(calls) = Len(traces) + 1

\* C11: when a collaborator call fails, in a persona's generation or in the
\* Arbiter's, the run aborts: the failure reaches the caller, and from then on
\* no call is made (none again, no other), and no Verdict is returned.
C11_FailureAborts ==
    /\ []C11_AbortedState
    /\ [][error # NoError => (calls' = calls /\ returned' = returned)]_vars
    /\ [][Len(calls') > Len(calls) /\ memo'[calls'[Len(calls')]][1] = "raises"
            => (pc' = "aborted" /\ error' # NoError /\ returned' = <<>>)]_vars

\* the Arbiter's call fails after three traces that disagree
C11_Witness ==
    /\ pc = "aborted"
    /\ Len(traces) = NumPersonas
    /\ Len(calls) = NumPersonas + 1
    /\ error # NoError

\* C12 (as claimed): a failure in a persona's generation reaches the caller as
\* a GenerationError that names the persona.
C12_GenerationErrorNamesPersona ==
    (pc = "aborted" /\ Len(traces) < NumPersonas) =>
        /\ error[1] = "GenerationError"
        /\ \E k \in 1..Len(error) : error[k] = trace_names[Len(traces) + 1]

\* C12: a failure in a persona's generation reaches the caller as the
\* exception the collaborator raised, unchanged: it is not wrapped and does not
\* name the persona.
C12_CollaboratorErrorUnchanged ==
    (pc = "aborted" /\ Len(traces) < NumPersonas) =>
        /\ error \in CollaboratorErrors
        /\ memo[calls[Len(calls)]] = Raises(error)
        /\ \A k \in 1..Len(error) :
              /\ error[k] # "GenerationError"
              /\ \A n \in 1..NumPersonas : error[k] # trace_names[n]

\* the Logician's call fails
C12_Witness ==
    /\ pc = "aborted"
    /\ Len(traces) = 1
    /\ error = <<"MemoryError">>

(***************************************************************************)
(* Properties of the order of the calls and of the phases.                 *)
(***************************************************************************)

\* the k-th call of the log is the Believer's, the Logician's, the
\* Contrarian's: the problem statement alone at temperature 0.6, with the
\* causal-check protocol at 0.7, with the red-team protocol at 0.9
BelieverCallAt(k) ==
    /\ ~IsArbiterCall(calls[k])
    /\ calls[k].temp = 6
    /\ calls[k].messages[2].content = prompt

LogicianCallAt(k) ==
    /\ ~IsArbiterCall(calls[k])
    /\ calls[k].temp = 7
    /\ calls[k].messages[2].content = prompt \o <<"[PROTOCOL: CAUSAL CHECK] ...">>

ContrarianCallAt(k) ==
    /\ ~IsArbiterCall(calls[k])
    /\ calls[k].temp = 9
    /\ calls[k].messages[2].content = prompt \o <<"[PROTOCOL: RED TEAM] ...">>

\* C13 (state part): the log holds the Believer's call, then the Logician's,
\* then the Contrarian's, then at most the Arbiter's; at most the last call
\* has no trace yet; past the loop all three persona calls have been made.
C13_CallLog ==
    /\ Len(calls) <= NumPersonas + 1
    /\ Len(traces) <= Len(calls)
    /\ Len(calls) <= Len(traces) + 1
    /\ Len(calls) >= 1 => BelieverCallAt(1)
    /\ Len(calls) >= 2 => LogicianCallAt(2)
    /\ Len(calls) >= 3 => ContrarianCallAt(3)
    /\ Len(calls) = NumPersonas + 1 =>
          /\ IsArbiterCall(calls[NumPersonas + 1])
          /\ Len(traces) = NumPersonas
    /\ pc \in {"checking", "arbitrating", "done"} =>
          /\ Len(calls) >= NumPersonas
          /\ Len(traces) = NumPersonas

\* C13: the persona calls are made once each, one after the other, in the
\* order Believer, Logician, Contrarian, a call starting only when every
\* earlier call has returned its trace; the Arbiter's call, if made, comes
\* when the three traces are there.
C13_CallsInOrder ==
    /\ []C13_CallLog
    /\ [][calls' # calls =>
            /\ Len(calls') = Len(calls) + 1
            /\ SubSeq(calls', 1, Len(calls)) = calls
            /\ Len(traces) = Len(calls)
            /\ IsArbiterCall(calls'[Len(calls')]) => Len(traces) = NumPersonas]_vars

\* a contested run: four calls
C13_Witness ==
    /\ pc = "done"
    /\ Len(calls) = NumPersonas + 1
    /\ BelieverCallAt(1) /\ LogicianCallAt(2) /\ ContrarianCallAt(3)
    /\ IsArbiterCall(calls[4])

\* the steps from one phase to another that the code can take
PhaseSteps ==
    {<<"generating", "checking">>, <<"generating", "aborted">>,
     <<"checking", "done">>, <<"checking", "arbitrating">>,
     <<"arbitrating", "done">>, <<"arbitrating", "aborted">>}

\* the phases reachable from a phase by one step or more (PhaseSteps has no
\* path longer than three steps)
PhasesAfter(ph) ==
    LET one(S) == S \cup {st[2] : st \in {t \in PhaseSteps : t[1] \in S}}
    IN  one(one(one({st[2] : st \in {t \in PhaseSteps : t[1] = ph}})))

C14_PhaseState ==
    /\ pc \in {"generating", "checking", "arbitrating", "done", "aborted"}
    /\ Len(answers) = Len(traces)
    /\ \A k \in 1..Len(traces) : answers[k] = extract_answer(traces[k])
    /\ pc = "generating" => Len(traces) < NumPersonas
    /\ pc \in {"checking", "arbitrating", "done"} => Len(traces) = NumPersonas
    /\ pc = "arbitrating" => ~AllAgree
    /\ \A ph \in {"generating", "checking", "arbitrating", "done", "aborted"} :
          ph \notin PhasesAfter(ph)

C15_ClosedBoxContent ==
    ex.pc = "done" =>
        /\ \A p \in Markers(ex.text) :
              (IsLastMarker(ex.text, p) /\ CloseOf(ex.text, p) # -1) =>
                  /\ ex.start_idx = p
                  /\ ex.balance = 0
                  /\ ex.end_idx = CloseOf(ex.text, p) + 1
                  /\ IsStripped(ex.result, Content(ex.text, p))
        /\ ex.text = ExampleBoxed => ex.result = <<"4", "2">>

\* a closed box with a pair of braces in its content, returned whole
C15_Witness ==
    /\ ex.pc = "done"
    /\ \E p \in Markers(ex.text) :
          /\ IsLastMarker(ex.text, p)
          /\ CloseOf(ex.text, p) # -1
          /\ Contains(Content(ex.text, p), <<"{">>)
          /\ Contains(Content(ex.text, p), <<"}">>)
          /\ ex.result = Content(ex.text, p)

(***************************************************************************)
(* Properties of the consensus check as a relation on runs.                *)
(***************************************************************************)

\* the ways to hand the three outputs to the three personas
PersonaPermutations ==
    {f \in [1..NumPersonas -> 1..NumPersonas] :
        \A j, k \in 1..NumPersonas : f[j] = f[k] => j = k}

\* the answers the loop extracts when persona k produces the output f[k],
\* ext[n] being the answer extracted from the n-th output
AnswersPermuted(ext, f) == [k \in 1..NumPersonas |-> ext[f[k]]]

\* C16: with the three outputs handed to the personas in any other order the
\* check decides as it decides in this run, unanimous for every order or
\* contested for every order; a run sent to the Arbiter, and one that returned
\* the Arbiter's answer, is contested in every order of its answers, and one
\* that returned by consensus is unanimous in every order.
C16_ConsensusOrderIndependent ==
    /\ pc = "checking" =>
          LET ext == [n \in 1..NumPersonas |-> extract_answer(traces[n])]
          IN  \A f \in PersonaPermutations :
                  Consensus(AnswersPermuted(ext, f)) <=> Consensus(answers)
    /\ pc = "arbitrating" =>
          \A f \in PersonaPermutations : ~Consensus(AnswersPermuted(answers, f))
    /\ pc = "done" =>
          \A f \in PersonaPermutations :
              returned[1].provenance = "consensus"
                  <=> Consensus(AnswersPermuted(answers, f))

\* a contested run in which two answers agree and the third does not
C16_Witness ==
    /\ pc = "done"
    /\ returned[1].provenance = "arbiter"
    /\ Squeeze(answers[1]) = Squeeze(answers[2])
    /\ Squeeze(answers[3]) # Squeeze(answers[1])
    /\ answers[1] # answers[2]

(***************************************************************************)
(* The judge of check_equivalence is not on the path of the run.           *)
(***************************************************************************)

\* a call with the judge's parameters: temperature 0 and at most 10 tokens
IsJudgeCall(c) == c.temp = 0 \/ c.max_tokens = 10

\* the judge would answer at once that the two answers are the same value:
\* they are equal after lower().strip()
JudgeEquivalent(a, b) == Strip(Lower(a)) = Strip(Lower(b))

\* C19: check_equivalence is not started by the run and none of the run's
\* calls is a call to its judge; a completed run has made exactly three calls
\* when it returned by consensus and exactly four when it was contested; and
\* answers that differ after the check's normalization go to the Arbiter even
\* when check_equivalence would have called them equivalent.
C19_JudgeNeverCalled ==
    /\ eq = IdleEq
    /\ \A k \in 1..Len(calls) : ~IsJudgeCall(calls[k])
    /\ pc = "done" =>
          /\ returned[1].provenance = "consensus" => Len(calls) = NumPersonas
          /\ returned[1].provenance = "arbiter" => Len(calls) = NumPersonas + 1
          /\ returned[1].provenance \in {"consensus", "arbiter"}
          /\ (\E j, k \in 1..NumPersonas : NoSpaces(answers[j]) # NoSpaces(answers[k])) =>
                /\ returned[1].provenance = "arbiter"
                /\ ArbiterCalls = {NumPersonas + 1}

\* the three answers are the same value for check_equivalence (they differ in
\* letter case only) and the run asked the Arbiter
C19_Witness ==
    /\ pc = "done"
    /\ Len(calls) = NumPersonas + 1
    /\ \A j, k \in 1..NumPersonas : JudgeEquivalent(answers[j], answers[k])
    /\ \E j, k \in 1..NumPersonas : NoSpaces(answers[j]) # NoSpaces(answers[k])
    /\ returned[1].provenance = "arbiter"

\* C20: whatever the text, the result of extract_answer does not hold the
\* marker \boxed{ and neither starts nor ends with a whitespace character; on
\* the marker path it is taken from what follows the last marker, on the
\* fallback path from a text without marker.
C20_ResultCleanNoMarker ==
    ex.pc = "done" =>
        /\ ~Contains(ex.result, start_marker)
        /\ ex.result # <<>> =>
              /\ ~IsSpace(ex.result[1])
              /\ ~IsSpace(ex.result[Len(ex.result)])
        /\ Markers(ex.text) = {} => ex.start_idx = -1
        /\ Markers(ex.text) # {} =>
              /\ IsLastMarker(ex.text, ex.start_idx)
              /\ ex.content_start = ContentStart(ex.start_idx)
              /\ ex.end_idx >= ex.content_start
              /\ Contains(SubSeq(ex.text, ex.content_start + 1, Len(ex.text)), ex.result)

\* the marker path on a closed box with blanks around its content
C20_Witness ==
    /\ ex.pc = "done"
    /\ Markers(ex.text) # {}
    /\ ex.balance = 0
    /\ ex.result # <<>>
    /\ ex.text[ex.content_start + 1] = " "
    /\ ex.text[ex.end_idx - 1] = " "

(***************************************************************************)
(* Two runs on the same problem with a deterministic collaborator.         *)
(***************************************************************************)

\* s is an initial segment of t
IsPrefix(s, t) == Len(s) <= Len(t) /\ s = SubSeq(t, 1, Len(s))

\* C17: with a collaborator that ends a call the same way whenever it is
\* made again, a run on the same problem makes the calls of every earlier run
\* in their order and ends as it ended: the same Verdict (answer and
\* provenance) or the same failure; and a run starts with nothing of the
\* earlier ones: no trace, no answer, no Verdict.
C17_RunsDeterministic ==
    /\ Len(history) = run - 1
    /\ \A h \in 1..Len(history) :
          /\ IsPrefix(calls, history[h].calls)
          /\ pc \in {"done", "aborted"} =>
                /\ calls = history[h].calls
                /\ returned = history[h].returned
                /\ error = history[h].error
                /\ pc = history[h].pc
    /\ Len(traces) <= NumPersonas
    /\ Len(answers) = Len(traces)
    /\ (pc = "generating" /\ i = 0) =>
          /\ traces = <<>> /\ answers = <<>>
          /\ returned = <<>> /\ error = NoError
    /\ pc = "done" => Len(returned) = 1

\* a second run that went to the Arbiter and returned what the first returned
C17_Witness ==
    /\ run = MaxRuns
    /\ pc = "done"
    /\ history[1].pc = "done"
    /\ returned[1].provenance = "arbiter"
    /\ returned = history[1].returned
    /\ Len(calls) = NumPersonas + 1

(***************************************************************************)
(* Termination of the run and of the scan of extract_answer.               *)
(***************************************************************************)

\* C18 (safety part): the index of the scan is never past the end of the
\* text, and a run that is done has returned its Verdict.
C18_ScanInBounds ==
    /\ ex.end_idx <= Len(ex.text)
    /\ ex.pc = "scan" => ex.end_idx >= ex.content_start
    /\ ex.pc # "raised"
    /\ pc = "done" => Len(returned) = 1

\* C18: when every call to the collaborator returns or raises, the run comes
\* to its end, done with a Verdict or aborted; every scan of extract_answer
\* that is begun comes to its return, each of its steps moving the index by
\* exactly one, never past the end of the text.
C18_RunTerminates ==
    /\ <>(pc \in {"done", "aborted"})
    /\ (ex.pc \in {"start", "scan"}) ~> (ex.pc = "done")
    /\ []C18_ScanInBounds
    /\ [][(ex.pc = "scan" /\ ex'.pc = "scan") =>
            /\ ex'.end_idx = ex.end_idx + 1
            /\ ex'.text = ex.text]_vars

\* a run that ended with the Arbiter's answer, the last scan having reached
\* the end of the text without a close brace
C18_Witness ==
    /\ pc = "done"
    /\ Len(returned) = 1
    /\ Len(calls) = NumPersonas + 1
    /\ ex.pc = "done"
    /\ ex.start_idx # -1
    /\ ex.balance > 0
    /\ ex.end_idx = Len(ex.text)

====
